---- MODULE Spec2Model ----
(***************************************************************************)
(* Model of src/analyzer.py: the price normalisation function              *)
(* calculate_normalized_return and the Tkinter handler                     *)
(* StockAnalyzerApp.run_analysis that calls it.                            *)
(*                                                                         *)
(* Numbers.  Prices are positive integers and a float is the pair <<n, d>> *)
(* of the reduced fraction n/d; NaN is <<0, 0>>.  On integer prices the    *)
(* IEEE quotient p/q is the correctly rounded value of the real p/q, so    *)
(* two quotients of small integers are the same float exactly when they    *)
(* are the same reduced fraction.                                          *)
(*                                                                         *)
(* Strings that the code takes apart (the symbols entry) are sequences of  *)
(* one-character strings; strings it only compares are TLA+ strings.       *)
(***************************************************************************)
EXTENDS Integers, Sequences, FiniteSets, TLC

\* ------------------------------------------------------------------ bounds
MaxDates == 2
MaxPrice == 2
MaxText  == 2
MaxK     == 2

\* ------------------------------------------------------------------ floats
NaN == <<0, 0>>

RECURSIVE GCD(_, _)
GCD(a, b) == IF b = 0 THEN a ELSE GCD(b, a % b)

Price(p) == <<p, 1>>

IsNaN(x) == x = NaN

\* x / y on floats: NaN when either operand is NaN, else the reduced quotient.
FloatDiv(x, y) ==
    IF IsNaN(x) \/ IsNaN(y) THEN NaN
    ELSE LET n == x[1] * y[2]
             d == x[2] * y[1]
             g == GCD(n, d)
         IN  <<n \div g, d \div g>>

One == <<1, 1>>

\* ------------------------------------------------------------ option values
None == <<>>
Some(v) == <<v>>

\* ----------------------------------------------------------------- strings
Range(s) == {s[i] : i \in DOMAIN s}

Upper(c) == IF c = "a" THEN "A" ELSE IF c = "b" THEN "B" ELSE c

\* str.upper()
upper(s) == [i \in DOMAIN s |-> Upper(s[i])]

IsSpace(c) == c = " "

RECURSIVE lstrip(_)
lstrip(s) == IF s # <<>> /\ IsSpace(Head(s)) THEN lstrip(Tail(s)) ELSE s

RECURSIVE rstrip(_)
rstrip(s) ==
    IF s # <<>> /\ IsSpace(s[Len(s)]) THEN rstrip(SubSeq(s, 1, Len(s) - 1)) ELSE s

\* str.strip()
strip(s) == rstrip(lstrip(s))

\* str.split(','): the segments between commas, empty ones included.
RECURSIVE split(_)
split(s) ==
    IF s = <<>> THEN << <<>> >>
    ELSE LET rest == split(Tail(s))
         IN  IF Head(s) = ","
             THEN << <<>> >> \o rest
             ELSE << <<Head(s)>> \o Head(rest) >> \o Tail(rest)

RECURSIVE SelectNonEmpty(_)
SelectNonEmpty(segs) ==
    IF segs = <<>> THEN <<>>
    ELSE IF strip(Head(segs)) # <<>>
         THEN <<strip(Head(segs))>> \o SelectNonEmpty(Tail(segs))
         ELSE SelectNonEmpty(Tail(segs))

\* [s.strip() for s in symbol_str.split(',') if s.strip()] on the upper-cased text
symbols_list(text) == SelectNonEmpty(split(upper(text)))

\* ------------------------------------------------------------------- dates
\* Entry strings for the dates: one that '%Y-%m-%d' parses, one that it rejects.
DateStrings == {"2024-01-02", "01/02/2024"}

\* datetime.strptime(s, '%Y-%m-%d') succeeds
strptime_ok(s) == s = "2024-01-02"

\* -------------------------------------------------------------- data frames
\* A price table (df_price, df_normalized): the dates of its rows, its column
\* labels, and val[date][column].  A provider frame (data) has one such table
\* per price field: val[field][date][symbol].
Dates == 1..MaxDates

PriceValues == {NaN} \cup {Price(p) : p \in 1..MaxPrice}

FieldNames == {"Adj Close", "Close", "Volume"}

\* Unadjusted close minus adjusted close, per response.
Gaps == {0, 1}

SymA == <<"A">>
SymB == <<"B">>

\* Column label of data['Close'].to_frame()
CloseColumn == <<"C", "l", "o", "s", "e">>

FieldValue(f, x, gap) ==
    IF f = "Close" /\ ~IsNaN(x) THEN <<x[1] + gap, 1>> ELSE x

\* The rows of a frame are the dates on which at least one requested symbol
\* traded; a symbol that did not trade on such a date has NaN there.
BaseTables(cols) ==
    UNION {{t \in [idx -> [cols -> PriceValues]] :
              \A d \in idx : \E s \in cols : ~IsNaN(t[d][s])} : idx \in SUBSET Dates}

MkData(t, fs, gap, cols) ==
    [index   |-> DOMAIN t,
     fields  |-> fs,
     columns |-> cols,
     val     |-> [f \in fs |-> [d \in DOMAIN t |->
                    [s \in cols |-> FieldValue(f, t[d][s], gap)]]]]

\* The fields a frame carries, and the gap between its two close fields when
\* it carries both.
FieldSets == {fs \in SUBSET FieldNames : "Volume" \in fs}

FieldVariants ==
    {[fields |-> fs, gap |-> 0] : fs \in FieldSets}
      \cup {[fields |-> fs, gap |-> g] :
               fs \in {x \in FieldSets : {"Adj Close", "Close"} \subseteq x},
               g \in Gaps \ {0}}

\* What yf.download may hand back for the requested symbols.
Responses(cols) ==
    {MkData(t, v.fields, v.gap, cols) : t \in BaseTables(cols), v \in FieldVariants}

\* yf.download raising: no frame comes back.
NoProvider == [raises |-> TRUE, frame |-> MkData(<<>>, {}, 0, {})]

\* yf.download either raises or returns a frame.
ProviderOutcomes(syms) ==
    {NoProvider}
      \cup {[raises |-> FALSE, frame |-> r] : r \in Responses(Range(syms))}

\* DataFrame.empty: no rows or no columns
frame_empty(frame) ==
    frame.index = {} \/ frame.fields = {} \/ frame.columns = {}

table_empty(df) == df.index = {} \/ df.columns = {}

MaxOf(S) == CHOOSE m \in S : \A x \in S : x <= m
MinOf(S) == CHOOSE m \in S : \A x \in S : m <= x

\* data['Close'].to_frame() of a flat single-symbol frame
SingleClose(frame) ==
    [index   |-> frame.index,
     columns |-> {CloseColumn},
     val     |-> [d \in frame.index |->
                    [c \in {CloseColumn} |->
                        frame.val["Close"][d][CHOOSE s \in frame.columns : TRUE]]]]

\* data[field] of a frame keyed by field, then symbol
FieldTable(frame, field) ==
    [index |-> frame.index, columns |-> frame.columns, val |-> frame.val[field]]

\* DataFrame.dropna(): the rows that hold no NaN
dropna(df) ==
    LET keep == {d \in df.index : \A c \in df.columns : ~IsNaN(df.val[d][c])}
    IN  [index |-> keep, columns |-> df.columns, val |-> [d \in keep |-> df.val[d]]]

\* The statement `df_price.dropna()`: the cleaned copy is not assigned, so
\* df_price is what it was.
dropna_statement(df_price) ==
    LET cleaned == dropna(df_price) IN df_price

\* Variant: the first row taken as the reference (iloc[0] for iloc[-1]).
final_prices_first_row(df_price) == df_price.val[MinOf(df_price.index)]

\* df_price.iloc[-1]
final_prices(df_price) == df_price.val[MaxOf(df_price.index)]

\* Variant: every column divided by the reference price of one column.
div_columns_one_reference(df_price, finals) ==
    [index   |-> df_price.index,
     columns |-> df_price.columns,
     val     |-> [d \in df_price.index |->
                    [c \in df_price.columns |->
                        FloatDiv(df_price.val[d][c],
                                 finals[CHOOSE c0 \in df_price.columns : TRUE])]]]

\* df_price.div(final_prices, axis=1): each column by its own entry of final_prices
div_columns(df_price, finals) ==
    [index   |-> df_price.index,
     columns |-> df_price.columns,
     val     |-> [d \in df_price.index |->
                    [c \in df_price.columns |-> FloatDiv(df_price.val[d][c], finals[c])]]]

\* ------------------------------------------------ calculate_normalized_return
MsgDate     == "time data does not match format '%Y-%m-%d'"
MsgFetch    == "Error fetching data from Yahoo Finance"
MsgNoData   == "No data found for the symbols in the given period. Check dates or symbols."
MsgNoClose  == "Data fetching error: 'Close' column not found."
MsgNoColumn == "Data fetching error: Cannot find Adjusted or Close price columns."
MsgOverlap  == "No overlapping data found for all symbols after cleaning."

NoField == "none"

Raise(msg, fetched_) ==
    [exc |-> "ValueError", msg |-> msg, table |-> None, fetched |-> fetched_]

Return(df) ==
    [exc |-> "none", msg |-> "", table |-> Some(df), fetched |-> TRUE]

\* Variant: the plain close preferred over the adjusted close.
multi_field_close_first(frame) ==
    IF "Close" \in frame.fields THEN "Close"
    ELSE IF "Adj Close" \in frame.fields THEN "Adj Close"
    ELSE NoField

\* Which price field the multi-symbol branch reads.
multi_field(frame) ==
    IF "Adj Close" \in frame.fields THEN "Adj Close"
    ELSE IF "Close" \in frame.fields THEN "Close"
    ELSE NoField

\* Which price field the single-symbol branch reads.
single_field(frame) ==
    IF "Close" \in frame.fields THEN "Close" ELSE NoField

\* Lines 52-66: clean, check, normalise.
normalize(df_selected) ==
    LET df_price == dropna_statement(df_selected)
    IN  IF table_empty(df_price) THEN Raise(MsgOverlap, TRUE)
        ELSE Return(div_columns(df_price, final_prices(df_price)))

\* prov is what yf.download does if it is reached.
calculate_normalized_return(syms, start, end, prov) ==
    IF ~strptime_ok(start) \/ ~strptime_ok(end) THEN Raise(MsgDate, FALSE)
    ELSE IF prov.raises THEN Raise(MsgFetch, TRUE)
    ELSE IF frame_empty(prov.frame) THEN Raise(MsgNoData, TRUE)
    ELSE IF Len(syms) = 1
         THEN IF single_field(prov.frame) = NoField THEN Raise(MsgNoClose, TRUE)
              ELSE normalize(SingleClose(prov.frame))
         ELSE IF multi_field(prov.frame) = NoField THEN Raise(MsgNoColumn, TRUE)
              ELSE normalize(FieldTable(prov.frame, multi_field(prov.frame)))

\* ---------------------------------------------------------------- the state
\* The module is used in one of two ways: run as a script, which builds
\* StockAnalyzerApp (pc starts at "startup"), or imported, with
\* calculate_normalized_return called directly (pc starts at "call").
VARIABLES
    pc,             \* position: "startup", "idle", "try", "finally" | "call", "return"
    symbols_var,    \* text of the symbols entry
    start_date_var, \* text of the start date entry
    end_date_var,   \* text of the end date entry
    run_button,     \* [state, text] of the run button
    ax,             \* the axes: title, labels of the plotted lines, y limits
    shown,          \* the messagebox shown by the current invocation, if any
    escaped,        \* an exception left run_analysis
    fetched,        \* yf.download was reached in the current invocation
    df_normalized,  \* run_analysis' local: the table, once obtained
    symbols,        \* direct call: its arguments
    start_date_str,
    end_date_str,
    data,           \* direct call: what yf.download did, once reached
    ret             \* direct call: what the call returned or raised

vars == <<pc, symbols_var, start_date_var, end_date_var, run_button, ax, shown,
          escaped, fetched, df_normalized, symbols, start_date_str, end_date_str,
          data, ret>>

appVars == <<symbols_var, start_date_var, end_date_var, run_button, ax, shown,
             escaped, fetched, df_normalized>>

callVars == <<symbols, start_date_str, end_date_str, data, ret>>

Alphabet == {"a", ",", " "}

Texts == UNION {[1..n -> Alphabet] : n \in 0..MaxText}

\* Stand-in for the default "AAPL, MSFT, GOOG, VOO": more than one symbol.
DefaultSymbols == <<"a", ",", "a">>

ButtonNormal   == [state |-> "normal", text |-> "Run Analysis & Plot"]
ButtonDisabled == [state |-> "disabled", text |-> "Loading..."]

InitialAx == [title |-> <<"Initial Run">>, lines |-> {}, ylim |-> "auto"]

\* Symbol lists a direct caller passes.
Requests == {<<>>, <<SymA>>, <<SymB>>, <<SymA, SymB>>}

\* State after setup_ui, with __init__ about to call run_analysis.
InitApp ==
    /\ pc = "startup"
    /\ symbols_var = DefaultSymbols
    /\ start_date_var = "2024-01-02"
    /\ end_date_var = "2024-01-02"
    /\ run_button = ButtonNormal
    /\ ax = InitialAx
    /\ shown = None
    /\ escaped = FALSE
    /\ fetched = FALSE
    /\ df_normalized = None
    /\ symbols = <<>>
    /\ start_date_str = "2024-01-02"
    /\ end_date_str = "2024-01-02"
    /\ data = None
    /\ ret = None

\* A direct call of calculate_normalized_return about to start.
InitCall ==
    /\ pc = "call"
    /\ symbols \in Requests
    /\ start_date_str \in DateStrings
    /\ end_date_str \in DateStrings
    /\ data = None
    /\ ret = None
    /\ symbols_var = <<>>
    /\ start_date_var = "2024-01-02"
    /\ end_date_var = "2024-01-02"
    /\ run_button = ButtonNormal
    /\ ax = InitialAx
    /\ shown = None
    /\ escaped = FALSE
    /\ fetched = FALSE
    /\ df_normalized = None

Init == InitApp \/ InitCall

\* calculate_normalized_return(symbols, start_date_str, end_date_str), called directly.
Call ==
    /\ pc = "call"
    /\ IF strptime_ok(start_date_str) /\ strptime_ok(end_date_str)
       THEN \E prov \in ProviderOutcomes(symbols) :
              /\ data' = Some(prov)
              /\ ret' = Some(calculate_normalized_return(
                                symbols, start_date_str, end_date_str, prov))
       ELSE /\ data' = None
            /\ ret' = Some(calculate_normalized_return(
                              symbols, start_date_str, end_date_str, NoProvider))
    /\ pc' = "return"
    /\ UNCHANGED <<symbols, start_date_str, end_date_str>>
    /\ UNCHANGED appVars

\* ------------------------------------------------------------- run_analysis
MsgNoSymbols == "Please enter at least one valid stock symbol."
MsgDraw      == "An unexpected error occurred"

TitleKnown      == "Input Error / Data Fetch Error"
TitleUnexpected == "Unexpected Error"

\* Variant: the emptiness check left out.
valid_symbols_unchecked(syms) == TRUE

\* `if not symbols_list` is false
valid_symbols(syms) == syms # <<>>

\* Lines 176-193.  ax.clear(), one line per column, title, labels, legend,
\* grid and y limits; canvas.draw() may raise.
plot(df, start, end, drawRaises) ==
    [ax  |-> [title |-> <<start, end>>, lines |-> df.columns, ylim |-> "data"],
     exc |-> IF drawRaises THEN "Exception" ELSE "none",
     msg |-> IF drawRaises THEN MsgDraw ELSE ""]

\* Variant: ax.clear() placed before the call, so a failed call leaves the
\* axes cleared.
axes_after_call_clear_first(r, ax0, start, end, drawRaises) ==
    IF r.exc = "none"
    THEN plot(r.table[1], start, end, drawRaises)
    ELSE [ax |-> [title |-> <<>>, lines |-> {}, ylim |-> "auto"],
          exc |-> r.exc, msg |-> r.msg]

\* The axes and the pending exception once the call of line 162 is over: the
\* axes are touched only when the call returned a table.
axes_after_call(r, ax0, start, end, drawRaises) ==
    IF r.exc = "none"
    THEN plot(r.table[1], start, end, drawRaises)
    ELSE [ax |-> ax0, exc |-> r.exc, msg |-> r.msg]

\* Lines 151-193, the try block.
try_block(text, start, end, prov, drawRaises, ax0) ==
    LET syms == symbols_list(text)
    IN  IF ~valid_symbols(syms)
        THEN [ax |-> ax0, exc |-> "ValueError", msg |-> MsgNoSymbols,
              fetched |-> FALSE, df |-> None]
        ELSE LET r == calculate_normalized_return(syms, start, end, prov)
                 p == axes_after_call(r, ax0, start, end, drawRaises)
             IN  [ax |-> p.ax, exc |-> p.exc, msg |-> p.msg,
                  fetched |-> r.fetched, df |-> r.table]

\* canvas.draw() can raise only where it is reached.
DrawOutcomes(text, start, end, prov, ax0) ==
    IF try_block(text, start, end, prov, FALSE, ax0).exc = "none"
    THEN BOOLEAN ELSE {FALSE}

\* Lines 195-200, the except clauses: the dialog shown, and whether the
\* exception goes on to the caller.
except_clauses(exc, msg) ==
    IF exc = "none" THEN [shown |-> None, escaped |-> FALSE]
    ELSE IF exc = "ValueError"
         THEN [shown |-> Some([title |-> TitleKnown, msg |-> msg]), escaped |-> FALSE]
         ELSE [shown |-> Some([title |-> TitleUnexpected, msg |-> msg]), escaped |-> FALSE]

\* Variant: no finally clause, the button left as it is.
finally_clause_missing(button) == button

\* Line 203, the finally clause.
finally_clause(button) == ButtonNormal

\* Lines 148-149: the button is disabled and root.update() runs.  The click
\* reaches the handler only while the button is enabled; __init__ calls it once.
RunBegin ==
    /\ pc \in {"startup", "idle"}
    /\ run_button.state = "normal"
    /\ run_button' = ButtonDisabled
    /\ shown' = None
    /\ escaped' = FALSE
    /\ fetched' = FALSE
    /\ pc' = "try"
    /\ UNCHANGED <<symbols_var, start_date_var, end_date_var, ax, df_normalized>>
    /\ UNCHANGED callVars

\* The user types in an entry; the events are handled by the main loop or by
\* root.update() at line 149.
EditSymbols ==
    /\ pc \in {"idle", "try"}
    /\ \E t \in Texts : symbols_var' = t
    /\ UNCHANGED <<pc, start_date_var, end_date_var, run_button, ax, shown, escaped,
                   fetched, df_normalized>>
    /\ UNCHANGED callVars

EditStartDate ==
    /\ pc \in {"idle", "try"}
    /\ \E d \in DateStrings : start_date_var' = d
    /\ UNCHANGED <<pc, symbols_var, end_date_var, run_button, ax, shown, escaped,
                   fetched, df_normalized>>
    /\ UNCHANGED callVars

EditEndDate ==
    /\ pc \in {"idle", "try"}
    /\ \E d \in DateStrings : end_date_var' = d
    /\ UNCHANGED <<pc, symbols_var, start_date_var, run_button, ax, shown, escaped,
                   fetched, df_normalized>>
    /\ UNCHANGED callVars

\* Lines 151-200: the try block and the except clause that catches it.
RunBody ==
    /\ pc = "try"
    /\ \E prov \in ProviderOutcomes(symbols_list(symbols_var)) :
       \E drawRaises \in DrawOutcomes(symbols_var, start_date_var, end_date_var, prov, ax) :
         LET t == try_block(symbols_var, start_date_var, end_date_var, prov,
                            drawRaises, ax)
             h == except_clauses(t.exc, t.msg)
         IN  /\ ax' = t.ax
             /\ fetched' = t.fetched
             /\ df_normalized' = t.df
             /\ shown' = h.shown
             /\ escaped' = h.escaped
    /\ pc' = "finally"
    /\ UNCHANGED <<symbols_var, start_date_var, end_date_var, run_button>>
    /\ UNCHANGED callVars

\* Line 203 and the return: the button is restored, the locals are gone.
RunFinally ==
    /\ pc = "finally"
    /\ run_button' = finally_clause(run_button)
    /\ df_normalized' = None
    /\ pc' = "idle"
    /\ UNCHANGED <<symbols_var, start_date_var, end_date_var, ax, shown, escaped, fetched>>
    /\ UNCHANGED callVars

Next ==
    \/ Call
    \/ RunBegin
    \/ EditSymbols
    \/ EditStartDate
    \/ EditEndDate
    \/ RunBody
    \/ RunFinally

Spec == Init /\ [][Next]_vars

\* ------------------------------------------------------- reading the states
\* A direct call that has returned or raised.
Returned == pc = "return" /\ ret # None

\* A direct call that reached yf.download and got a frame back.
GotFrame == Returned /\ data # None /\ ~data[1].raises

Result == ret[1]
Frame == data[1].frame

PriceFields == {"Adj Close", "Close"}

\* Symbol s has a price on date d in every price field of the frame.
HasPrice(frame, d, s) ==
    \A f \in frame.fields \cap PriceFields : ~IsNaN(frame.val[f][d][s])

\* The prices the call read: the close column, or the preferred price field.
InputPrices ==
    IF Len(symbols) = 1 THEN SingleClose(Frame)
    ELSE FieldTable(Frame, multi_field(Frame))

\* x is the float p / q for the prices p and q.
IsRatio(x, p, q) ==
    /\ ~IsNaN(x)
    /\ x[1] * q[1] * p[2] = x[2] * p[1] * q[2]
    /\ GCD(x[1], x[2]) = 1

\* The table of price over last price, column by column.
RatioTable(t) ==
    [index   |-> t.index,
     columns |-> t.columns,
     val     |-> [d \in t.index |-> [c \in t.columns |->
                    FloatDiv(t.val[d][c], t.val[MaxOf(t.index)][c])]]]

\* ------------------------------------------------------------------ claims

\* C1: whenever calculate_normalized_return returns a table, the value in its
\* last row is exactly 1.0 for every symbol column.
C1_EndValueIsOne ==
    (Returned /\ Result.exc = "none") =>
        LET t == Result.table[1]
        IN  \A c \in t.columns : t.val[MaxOf(t.index)][c] = One

\* C2: every row of the returned table is a date on which all requested
\* symbols had a price in the input; no missing value reaches the division.
C2_RowAlignment ==
    (GotFrame /\ Result.exc = "none") =>
        LET t == Result.table[1]
        IN  \A d \in t.index : \A s \in Frame.columns : HasPrice(Frame, d, s)

\* C3: a non-empty frame for two or more symbols in which no date has a price
\* for every requested symbol makes the call fail with the no-overlap error.
C3_NoOverlapRejected ==
    (/\ GotFrame
     /\ Len(symbols) >= 2
     /\ ~frame_empty(Frame)
     /\ Frame.fields \cap PriceFields # {}
     /\ \A d \in Frame.index : \E s \in Frame.columns : ~HasPrice(Frame, d, s))
    => (Result.exc = "ValueError" /\ Result.msg = MsgOverlap /\ Result.table = None)

\* C4 as claimed: every invocation whose symbol list is empty, a direct call
\* with [] (and dates that parse) included, fails with the input error and
\* never reaches the fetch.
C4_EmptyInputRejectedEverywhere ==
    /\ (Returned /\ symbols = <<>>
          /\ strptime_ok(start_date_str) /\ strptime_ok(end_date_str)) =>
          (Result.exc = "ValueError" /\ Result.msg = MsgNoSymbols /\ ~Result.fetched)
    /\ (pc = "finally" /\ symbols_list(symbols_var) = <<>>) =>
          (shown = Some([title |-> TitleKnown, msg |-> MsgNoSymbols]) /\ ~fetched)

\* C4 as amended: a run_analysis invocation whose entry text resolves to no
\* symbol shows the input error, never reaches the fetch and obtains no table.
C4_EmptyInputRejected ==
    (pc = "finally" /\ symbols_list(symbols_var) = <<>>) =>
        /\ shown = Some([title |-> TitleKnown, msg |-> MsgNoSymbols])
        /\ ~fetched
        /\ df_normalized = None
        /\ ~escaped

\* A run on a text of commas and blanks only has been rejected.
C4_Witness ==
    /\ pc = "finally"
    /\ symbols_var = <<",", " ">>
    /\ shown = Some([title |-> TitleKnown, msg |-> MsgNoSymbols])
    /\ ~fetched

\* The frame a request for s alone gets when its close column carries the
\* prices the batch read for s: the dates on which s has a price.
SingleFrame(frame, s, field) ==
    LET idx == {d \in frame.index : ~IsNaN(frame.val[field][d][s])}
    IN  [index   |-> idx,
         fields  |-> {"Close", "Volume"},
         columns |-> {s},
         val     |-> [f \in {"Close", "Volume"} |->
                        [d \in idx |-> [c \in {s} |-> frame.val[field][d][s]]]]]

AloneResult(s) ==
    calculate_normalized_return(<<s>>, start_date_str, end_date_str,
        [raises |-> FALSE, frame |-> SingleFrame(Frame, s, multi_field(Frame))])

SameSeries(t1, c1, t2, c2) ==
    /\ t1.index = t2.index
    /\ \A d \in t1.index : t1.val[d][c1] = t2.val[d][c2]

BatchReturned == GotFrame /\ Len(symbols) >= 2 /\ Result.exc = "none"

SomePrice(s) == \E d \in Frame.index : HasPrice(Frame, d, s)

EveryPrice(s) == \A d \in Frame.index : HasPrice(Frame, d, s)

C6_FieldSelection ==
    (GotFrame /\ ~frame_empty(Frame)) =>
        IF Len(symbols) = 1
        THEN IF "Close" \in Frame.fields
             THEN Result.table = Some(RatioTable(SingleClose(Frame)))
             ELSE Result.exc = "ValueError" /\ Result.msg = MsgNoClose
                    /\ Result.table = None
        ELSE IF "Adj Close" \in Frame.fields
             THEN Result.table = Some(RatioTable(FieldTable(Frame, "Adj Close")))
             ELSE IF "Close" \in Frame.fields
                  THEN Result.table = Some(RatioTable(FieldTable(Frame, "Close")))
                  ELSE Result.exc = "ValueError" /\ Result.msg = MsgNoColumn
                         /\ Result.table = None

\* A batch whose frame has both fields with different ratios: the adjusted one is returned.
C6_Witness ==
    /\ GotFrame
    /\ Len(symbols) >= 2
    /\ {"Adj Close", "Close"} \subseteq Frame.fields
    /\ RatioTable(FieldTable(Frame, "Adj Close")) # RatioTable(FieldTable(Frame, "Close"))
    /\ Result.table = Some(RatioTable(FieldTable(Frame, "Adj Close")))

\* C7: every value of the returned table is the symbol's input price on that
\* date over the same symbol's input price on the last date of the table (NaN
\* where either is missing); the table has the rows and columns of the input.
C7_RatioOutput ==
    (GotFrame /\ Result.exc = "none") =>
        LET t == Result.table[1]
            p == InputPrices
            last == MaxOf(t.index)
        IN  /\ t.index = p.index
            /\ t.columns = p.columns
            /\ \A d \in t.index : \A c \in t.columns :
                 IF IsNaN(p.val[d][c]) \/ IsNaN(p.val[last][c])
                 THEN IsNaN(t.val[d][c])
                 ELSE IsRatio(t.val[d][c], p.val[d][c], p.val[last][c])

\* One symbol, prices 1 then 2: the table is 1/2 then 1.
C7_Witness ==
    /\ GotFrame
    /\ symbols = <<SymA>>
    /\ Result.exc = "none"
    /\ InputPrices.index = {1, 2}
    /\ InputPrices.val[1][CloseColumn] = Price(1)
    /\ InputPrices.val[2][CloseColumn] = Price(2)
    /\ Result.table[1].val[1][CloseColumn] = <<1, 2>>
    /\ Result.table[1].val[2][CloseColumn] = One

\* The frame with every price of symbol s multiplied by k.
Scaled(frame, s, k) ==
    [frame EXCEPT !.val = [f \in frame.fields |-> [d \in frame.index |->
        [c \in frame.columns |->
            IF c = s /\ f \in PriceFields /\ ~IsNaN(frame.val[f][d][c])
            THEN <<k * frame.val[f][d][c][1], 1>>
            ELSE frame.val[f][d][c]]]]]

ScaledResult(s, k) ==
    calculate_normalized_return(symbols, start_date_str, end_date_str,
        [raises |-> FALSE, frame |-> Scaled(Frame, s, k)])

C9_ButtonRestored ==
    /\ pc \in {"startup", "idle"} => run_button = ButtonNormal
    /\ pc \in {"try", "finally"} => run_button = ButtonDisabled
    /\ ~escaped
    /\ (pc = "finally" /\ df_normalized = None) =>
          (shown # None /\ shown[1].title = TitleKnown)

\* An invocation that failed with an unexpected exception has ended, the button enabled.
C9_Witness ==
    /\ pc = "idle"
    /\ shown # None
    /\ shown[1].title = TitleUnexpected
    /\ run_button = ButtonNormal

CalcFailures ==
    {MsgNoSymbols, MsgDate, MsgFetch, MsgNoData, MsgNoClose, MsgNoColumn, MsgOverlap}

\* C10: a run whose validation or calculation fails leaves the axes as they
\* were; the axes change only in a run that obtained a normalized table.
C10_ChartKeptOnFailure ==
    [][/\ (pc = "try" /\ pc' = "finally" /\ df_normalized' = None) => ax' = ax
       /\ (pc = "try" /\ pc' = "finally" /\ shown' # None
             /\ shown'[1].msg \in CalcFailures) => ax' = ax
       /\ ax' # ax => (pc = "try" /\ df_normalized' # None)]_vars

\* A plotted chart is still there after a run that failed in the calculation.
C10_Witness ==
    /\ pc = "finally"
    /\ ax.lines # {}
    /\ df_normalized = None
    /\ shown # None
    /\ shown[1].msg \in CalcFailures \ {MsgNoSymbols}

====
